---- MODULE Spec2Model ----
(***************************************************************************)
(* SpytoRec (SPD_V1.0.py): the record loop, the capture session slot, the  *)
(* finalization queue and its worker thread, and the shutdown sequence of  *)
(* main.                                                                   *)
(*                                                                         *)
(* Two threads of control are modelled: the main thread (setup, poll loop, *)
(* the loop's except/finally clauses, main's finally) and the daemon       *)
(* worker thread.  Encoder processes are environment: each runs until it   *)
(* exits by itself or is killed by the worker.                             *)
(*                                                                         *)
(* KeyboardInterrupt is modelled wherever the code has a handler for it:   *)
(* inside the poll loop (handler at line 640) and inside                   *)
(* execute_record_command but outside the loop's try body, that is during  *)
(* setup and during the except/finally clauses of lines 640-643 (handler   *)
(* in main, line 741).  An interrupt raised inside main's own finally is   *)
(* not handled by the program and is outside the model.                    *)
(*                                                                         *)
(* sanitize_for_filesystem is a pure function; it is modelled on strings   *)
(* as sequences of characters and explored by a specification of its own   *)
(* (SanSpec) that applies it to an input and then to its own result.       *)
(***************************************************************************)
EXTENDS Integers, Sequences, FiniteSets, TLC

(* ------------------------------ bounds -------------------------------- *)

\* Encoder launches in one run.
MaxSessions == 2

\* Length of the part of a sanitizer input that varies over all characters.
MaxTail == 3

\* Lines already in the ledger file when the run starts.
MaxPrior == 1

(* ------------------------- program constants -------------------------- *)

\* hardcoded_defaults['min_duration'], seconds.
min_duration == 25

\* Size threshold of file_ok_initially and of the post-rewrite check.
MinFileSize == 1024

\* Return code reported for an encoder the worker killed (SIGKILL).
KilledCode == -9

\* exit_c before the encoder is reaped (line 325).
NoExitCode == -99

\* Default of sanitize_for_filesystem's max_len.
max_len == 70

(* ----------------------------- input sets ----------------------------- *)

\* Track identifiers the streaming service can report.
Tracks == {"T1", "T2", "T3"}

\* item['duration_ms'] of each track; T2 is below the duration floor.
DurationMs(id) ==
    CASE id = "T1" -> 200000
      [] id = "T2" -> 10000
      [] id = "T3" -> 30000
      [] OTHER -> 180000

\* Return codes an encoder can exit with by itself.
ExitCodes == {0, 1, 255}

\* What can be at an output path: nothing, or a file of some size.
NoFile == [exists |-> FALSE, size |-> 0]
FileOf(n) == [exists |-> TRUE, size |-> n]
\* What an encoder leaves behind: nothing, an undersized file, a usable one.
FileStates == {NoFile, FileOf(500), FileOf(2048)}

\* A configuration of a run.  --format has choices ogg/flac, but its
\* default comes unchecked from config.ini, so another value can reach
\* start_recording.
Config(o, k, f) == [organize |-> o, skip_existing_file |-> k, format |-> f]

\* recording_buffer_seconds, in milliseconds: the default of -0.2 s, and a
\* buffer from config.ini that exceeds the length of a short track.
DefaultBuffer == -200
LongNegativeBuffer == -40000

\* get_current_track returns None (nothing playing, not a track, fetch error) ...
NoTrack == [present |-> FALSE, id |-> "", is_playing |-> FALSE]
\* ... or a dict; a local file has no id.
Snapshot(i, p) == [present |-> TRUE, id |-> i, is_playing |-> p]
\* What a poll can fetch while the user plays the tracks of playlist pl.
Snapshots(pl) == {NoTrack, Snapshot("T1", FALSE), Snapshot("", TRUE)}
                     \cup {Snapshot(t, TRUE) : t \in pl}

\* Outcomes of the directory creation and of Popen in start_recording.
LaunchOutcomes == {"ok", "mkdir_error", "not_found", "spawn_error"}

\* Lines of the ledger file.  kind "entry" is a JSON object with track_id;
\* "no_id" a JSON object without it; "garbage" is not JSON; "scalar" is JSON
\* but not an object.  sid is the session that wrote the line (0: an
\* earlier run).
\* Mutant: every line written claims a successful header repair.
EntryLineRepairedAlways(t, s, rw) ==
    [kind |-> "entry", track_id |-> t, sid |-> s, header_rewrite_successful |-> TRUE]
EntryLine(t, s, rw) ==
    [kind |-> "entry", track_id |-> t, sid |-> s, header_rewrite_successful |-> rw]
OddLine(k) ==
    [kind |-> k, track_id |-> "", sid |-> 0, header_rewrite_successful |-> FALSE]
PriorLines == {EntryLine("T1", 0, TRUE)}
                  \cup {OddLine(k) : k \in {"no_id", "garbage", "scalar"}}

\* What is at the output paths when the run starts.
NoFiles == [t \in Tracks |-> NoFile]
LeftOver == [t \in Tracks |-> IF t = "T3" THEN FileOf(2048) ELSE NoFile]

RECURSIVE SeqsUpTo(_, _)
SeqsUpTo(S, n) ==
    IF n = 0 THEN {<<>>}
    ELSE LET shorter == SeqsUpTo(S, n - 1)
         IN shorter \cup {Append(s, x) : s \in {q \in shorter : Len(q) = n - 1}, x \in S}

(* ------------------------------- state -------------------------------- *)

\* The runs explored.  Runs with two recordable tracks start from the
\* default configuration, an empty ledger and an empty output directory;
\* each other kind of start (a ledger with earlier lines, a left-over file
\* with skip_existing_file, organize, an unsupported format) is explored
\* with one deviation from that at a time.
World(c, pl, l, fs) == [cfg |-> c, playlist |-> pl, ledger |-> l, files |-> fs]
\* The recording buffer of a run: one run of a single track has the long
\* negative buffer, every other run the default.
BufferOf(w) == IF w.playlist = {"T3"} THEN LongNegativeBuffer ELSE DefaultBuffer
Worlds ==
    {World(Config(FALSE, FALSE, "flac"), {"T1", "T3"}, <<>>, NoFiles)}
        \cup {World(Config(FALSE, FALSE, "flac"), {"T1", "T2"}, l, NoFiles) :
                  l \in SeqsUpTo(PriorLines, MaxPrior)}
        \cup {World(Config(FALSE, FALSE, "flac"), {"T1", "T3"},
                    <<EntryLine("T1", 0, TRUE)>>, NoFiles),
              World(Config(FALSE, TRUE, "flac"), {"T1", "T3"}, <<>>, LeftOver),
              World(Config(TRUE, FALSE, "flac"), {"T1", "T3"}, <<>>, NoFiles),
              World(Config(FALSE, FALSE, "mp3"), {"T1", "T3"}, <<>>, NoFiles),
              World(Config(FALSE, FALSE, "flac"), {"T3"}, <<>>, NoFiles)}

VARIABLES
    \* configuration (args), fixed for the run
    organize, skip_existing_file, format, recording_buffer,
    playlist,                  \* the tracks the user plays during the run
    \* main thread
    pc,                        \* position of the main thread
    current_ffmpeg_process,    \* session id of the active encoder, 0 for None
    current_recording_info,    \* info dict of the active session, or NoInfo
    persisted_recorded_ids,    \* ids loaded from the ledger at start
    session_attempted_ids,     \* ids attempted in this run
    too_short_calls,           \* per track: start_recording calls that hit the floor
    target_dir_made,           \* start_recording has reached its mkdir
    \* shared between the threads
    finalization_task_queue,   \* FIFO of tasks
    unfinished_tasks,          \* queue.Queue's count behind task_done / join
    stop_worker_event,
    \* worker thread
    wpc,                       \* position of the worker
    task,                      \* the task being processed, or NoTask
    exit_c, graceful_stop_by_q,
    \* environment
    procs,                     \* per session: the encoder process
    files,                     \* per track: what is at its output path
    ledger,                    \* lines of spytorec_metadata.jsonl
    \* history
    enqueued, dequeued, done,  \* per session: puts, gets, task_done calls
    queuedBeforeStop,          \* sessions enqueued while the flag was clear
    raised,                    \* sessions whose task ended in the exception handler
    pendingAtRaise,            \* sessions queued when some task raised
    finalized,                 \* sessions reported "Finalized"
    discarded,                 \* sessions whose task took the branch of line 350
    repaired,                  \* sessions whose file went through rewrite_audio_file
    tagged,                    \* sessions whose file went through embed_metadata
    \* sanitize_for_filesystem, applied on its own
    san_pc,                    \* "idle", "in", "once", "twice"
    san_text,                  \* the input string, a sequence of characters
    san_once,                  \* sanitize_for_filesystem(san_text)
    san_twice                  \* sanitize_for_filesystem(san_once)

cfgVars == <<organize, skip_existing_file, format, recording_buffer, playlist>>
attemptVars == <<session_attempted_ids, too_short_calls, target_dir_made>>
outcomeVars == <<finalized, discarded, repaired, tagged>>
slotVars == <<current_ffmpeg_process, current_recording_info>>
queueVars == <<finalization_task_queue, unfinished_tasks, enqueued, queuedBeforeStop>>
workerVars == <<wpc, task, exit_c, graceful_stop_by_q, dequeued, done, raised,
                pendingAtRaise, outcomeVars>>
sanVars == <<san_pc, san_text, san_once, san_twice>>
progVars == <<cfgVars, pc, slotVars, persisted_recorded_ids, attemptVars,
              queueVars, stop_worker_event, workerVars, procs, files, ledger>>
vars == <<progVars, sanVars>>

\* expected_duration_sec is held in milliseconds, like every duration here.
NoInfo == [track_id |-> "", process_obj |-> 0, expected_duration_sec |-> 0]
NoTask == [process_obj |-> 0, track_id |-> "", stop_reason |-> "",
           q_sent_by_main |-> FALSE]
\* An encoder process: poll() is None while running; track_id stands for the
\* output path on its command line, t is its -t argument (milliseconds).
Running(t, d) == [running |-> TRUE, returncode |-> 0, track_id |-> t, t |-> d]
\* Mutant: the return code is set but poll() still says running.
ExitedStillRunning(p, c) == [p EXCEPT !.returncode = c]
Exited(p, c) == [p EXCEPT !.running = FALSE, !.returncode = c]

Sessions == 1..MaxSessions
Started == 1..Len(procs)

\* The program's variables after construction, in world w.
ProgramInit(w) ==
    /\ organize = w.cfg.organize
    /\ skip_existing_file = w.cfg.skip_existing_file
    /\ format = w.cfg.format
    /\ recording_buffer = BufferOf(w)
    /\ playlist = w.playlist
    /\ ledger = w.ledger
    /\ files = w.files
    /\ pc = "setup"
    /\ current_ffmpeg_process = 0
    /\ current_recording_info = NoInfo
    /\ persisted_recorded_ids = {}
    /\ session_attempted_ids = {}
    /\ too_short_calls = [t \in Tracks |-> 0]
    /\ target_dir_made = FALSE
    /\ finalization_task_queue = <<>>
    /\ unfinished_tasks = 0
    /\ stop_worker_event = FALSE
    /\ wpc = "idle"
    /\ task = NoTask
    /\ exit_c = NoExitCode
    /\ graceful_stop_by_q = FALSE
    /\ procs = <<>>
    /\ enqueued = [s \in Sessions |-> 0]
    /\ dequeued = [s \in Sessions |-> 0]
    /\ done = [s \in Sessions |-> 0]
    /\ queuedBeforeStop = {}
    /\ raised = {}
    /\ pendingAtRaise = {}
    /\ finalized = {}
    /\ discarded = {}
    /\ repaired = {}
    /\ tagged = {}

Init ==
    /\ \E w \in Worlds : ProgramInit(w)
    /\ san_pc = "idle"
    /\ san_text = <<>>
    /\ san_once = <<>>
    /\ san_twice = <<>>

(* ------------------------- pure helpers ------------------------------- *)

\* load_recorded_ids: lines that are not JSON or lack track_id are skipped
\* (JSONDecodeError, KeyError); subscripting a JSON value that is not an
\* object raises TypeError, which the function does not catch.
RECURSIVE load_recorded_ids(_)
load_recorded_ids(lines) ==
    IF lines = <<>> THEN [raised |-> FALSE, ids |-> {}]
    ELSE LET l == Head(lines)
             rest == load_recorded_ids(Tail(lines))
         IN IF l.kind = "scalar" \/ rest.raised THEN [raised |-> TRUE, ids |-> {}]
            ELSE [raised |-> FALSE,
                  ids |-> (IF l.kind = "entry" THEN {l.track_id} ELSE {}) \cup rest.ids]

\* Mutant: a slot whose encoder has exited counts as free.
SessionActiveIfRunning(p) == p # 0 /\ procs[p].running

\* Mutant: the tick does not look at the slot before starting.
SessionActiveMut(p) == FALSE

\* Truthiness test of the slot: `if current_ffmpeg_process:`.
SessionActive(p) == p # 0

\* Mutant: the snapshot is looked at before the encoder.
StopReasonOfSnapshotFirst(proc, info, rec) ==
    IF ~info.present \/ ~info.is_playing THEN "Playback stopped or track unavailable"
    ELSE IF info.id # rec.track_id THEN "Track changed"
    ELSE IF ~proc.running THEN "FFmpeg process ended"
    ELSE ""

\* Mutant: an encoder that has exited is not noticed.
StopReasonOfNoExitCheck(proc, info, rec) ==
    IF ~info.present \/ ~info.is_playing THEN "Playback stopped or track unavailable"
    ELSE IF info.id # rec.track_id THEN "Track changed"
    ELSE ""

\* Mutant: a differing id is reported as stopped playback.
StopReasonOfMut(proc, info, rec) ==
    IF ~proc.running THEN "FFmpeg process ended"
    ELSE IF ~info.present \/ ~info.is_playing \/ info.id # rec.track_id
         THEN "Playback stopped or track unavailable"
    ELSE ""

\* Lines 605-608: the stop reason of a tick with an active session, "" for None.
StopReasonOf(proc, info, rec) ==
    IF ~proc.running THEN "FFmpeg process ended"
    ELSE IF ~info.present \/ ~info.is_playing THEN "Playback stopped or track unavailable"
    ELSE IF info.id # rec.track_id THEN "Track changed"
    ELSE ""

\* Line 610: a playing snapshot with an id.
Detected(info) == info.present /\ info.is_playing /\ info.id # ""

\* Mutant: the ids attempted in this run are not consulted.
AlreadyHandledNoAttempted(id, persisted, attempted) == id \in persisted

\* Mutant: the ids loaded from the ledger are not consulted.
AlreadyHandledMut(id, persisted, attempted) == id \in attempted

\* Line 613: already in the ledger or already attempted in this run.
AlreadyHandled(id, persisted, attempted) == id \in persisted \/ id \in attempted

\* Lines 407-408: the duration floor.
TooShort(id) == DurationMs(id) < min_duration * 1000

\* Mutant: every failed start is marked attempted.
MarkedOnFailureAlways(id) == TRUE

\* Mutant: a failed start is never marked attempted.
MarkedOnFailureMut(id) == FALSE

\* Line 635: after a False return the id is marked attempted if the track is
\* below the floor.
MarkedOnFailure(id) == TooShort(id)

\* Line 423: start_recording's mkdir succeeds (it is reached unless the floor
\* returned first, and it can fail).
ReachesMkdir(res, launch) == res # "too_short" /\ launch # "mkdir_error"

\* Mutant: a launch that raised is taken for a started session.
StartResultSpawnOk(info, fmt, launch) ==
    IF TooShort(info.id) THEN "too_short"
    ELSE IF launch = "mkdir_error" THEN "mkdir_error"
    ELSE IF fmt \notin {"ogg", "flac"} THEN "bad_format"
    ELSE "ok"

\* start_recording's result for a snapshot, given how mkdir and Popen turn out:
\* "ok" is the True return, everything else a False return.
StartResult(info, fmt, launch) ==
    IF TooShort(info.id) THEN "too_short"
    ELSE IF launch = "mkdir_error" THEN "mkdir_error"
    ELSE IF fmt \notin {"ogg", "flac"} THEN "bad_format"
    ELSE launch

(* --------------------- sanitize_for_filesystem ------------------------ *)

\* Characters, one of each kind the function tells apart: letters and a
\* digit (isalnum), the four characters it keeps besides, a character it
\* replaces, and a whitespace character other than the space.
Letters == {"a", "Z"}
Digits == {"1"}
KeptPunctuation == {" ", ".", "_", "-"}
Chars == Letters \cup Digits \cup KeptPunctuation \cup {"/", "\t"}

\* Mutant: no character is replaced.
MapCharMut(c) == c

\* Line 282: `c if c.isalnum() or c in " ._-" else "_"`.
MapChar(c) == IF c \in Letters \cup Digits \/ c \in KeptPunctuation THEN c ELSE "_"

\* str.strip: leading and trailing characters of cs are removed.
RECURSIVE LStrip(_, _)
LStrip(s, cs) ==
    IF s # <<>> /\ Head(s) \in cs THEN LStrip(Tail(s), cs) ELSE s
RECURSIVE RStrip(_, _)
RStrip(s, cs) ==
    IF s # <<>> /\ s[Len(s)] \in cs THEN RStrip(SubSeq(s, 1, Len(s) - 1), cs) ELSE s
Strip(s, cs) == RStrip(LStrip(s, cs), cs)

\* Length of the run of underscores and spaces s begins with.
RECURSIVE RunLen(_)
RunLen(s) ==
    IF s # <<>> /\ Head(s) \in {"_", " "} THEN 1 + RunLen(Tail(s)) ELSE 0

\* Line 283: re.sub(r'[_ ]{2,}', '_', text).
RECURSIVE Collapse(_)
Collapse(s) ==
    IF s = <<>> THEN <<>>
    ELSE IF RunLen(s) >= 2
         THEN <<"_">> \o Collapse(SubSeq(s, RunLen(s) + 1, Len(s)))
         ELSE <<Head(s)>> \o Collapse(Tail(s))

\* The slice text[:n].
Take(s, n) == SubSeq(s, 1, IF Len(s) < n THEN Len(s) ELSE n)

\* Lines 281-284.  The strip() of line 282 removes whitespace; after the
\* replacement the space is the only whitespace character left.
sanitize_for_filesystem(text, n) ==
    LET mapped == Strip([i \in DOMAIN text |-> MapChar(text[i])], {" "})
    IN Strip(Take(Collapse(mapped), n), {"_"})

\* Inputs: a run of letters of length 0 or just below max_len, followed by
\* every string of up to MaxTail characters, so that each character kind
\* occurs at the start, at the end and on either side of the cut.
Pad(n) == [i \in 1..n |-> "a"]
PadLens == {0, max_len - 2, max_len - 1}
SanInputs == {Pad(k) \o w : k \in PadLens, w \in SeqsUpTo(Chars, MaxTail)}

(* ------------------- capture session manager -------------------------- *)

\* Mutant: the target duration is not floored.
rec_for_durationMut(id, rec_buf) == DurationMs(id) + rec_buf

\* Line 426: max(0.1, dur_sec + rec_buf), in milliseconds.
rec_for_duration(id, rec_buf) ==
    IF DurationMs(id) + rec_buf > 100 THEN DurationMs(id) + rec_buf ELSE 100

\* start_recording's True path: Popen succeeded, the slot is assigned.
StartSession(info) ==
    /\ Len(procs) < MaxSessions
    /\ procs' = Append(procs, Running(info.id, rec_for_duration(info.id, recording_buffer)))
    /\ current_ffmpeg_process' = Len(procs) + 1
    /\ current_recording_info' =
           [track_id |-> info.id, process_obj |-> Len(procs) + 1,
            expected_duration_sec |-> rec_for_duration(info.id, recording_buffer)]

\* The task put on the queue by submit_to_finalization_queue.
TaskOf(p, rec, reason, sent) ==
    [process_obj |-> p, track_id |-> rec.track_id, stop_reason |-> reason,
     q_sent_by_main |-> sent]

\* Mutant: the task says q was sent whenever the write would have worked,
\* whether or not the encoder was still running.
submit_to_finalization_queueSentAlways(p, rec, q, running, reason, qok) ==
    IF p = 0 \/ rec = NoInfo
    THEN [proc |-> 0, info |-> NoInfo, queue |-> q, kill |-> p # 0 /\ running,
          put |-> FALSE]
    ELSE [proc |-> 0, info |-> NoInfo,
          queue |-> Append(q, TaskOf(p, rec, reason, qok)),
          kill |-> FALSE, put |-> TRUE]

\* Mutant: the slot is not cleared when the task is queued.
submit_to_finalization_queueMut(p, rec, q, running, reason, qok) ==
    IF p = 0 \/ rec = NoInfo
    THEN [proc |-> 0, info |-> NoInfo, queue |-> q, kill |-> p # 0 /\ running,
          put |-> FALSE]
    ELSE [proc |-> p, info |-> rec,
          queue |-> Append(q, TaskOf(p, rec, reason, running /\ qok)),
          kill |-> FALSE, put |-> TRUE]

\* submit_to_finalization_queue as a function of the slot (p, rec), the
\* queue q and whether the encoder in the slot is running: the slot and the
\* queue afterwards, whether the encoder is killed (line 462) and whether a
\* task is put (line 486).  qok: the write of b'q' succeeds.
submit_to_finalization_queue(p, rec, q, running, reason, qok) ==
    IF p = 0 \/ rec = NoInfo
    THEN [proc |-> 0, info |-> NoInfo, queue |-> q, kill |-> p # 0 /\ running,
          put |-> FALSE]
    ELSE [proc |-> 0, info |-> NoInfo,
          queue |-> Append(q, TaskOf(p, rec, reason, running /\ qok)),
          kill |-> FALSE, put |-> TRUE]

\* The effects of submit_to_finalization_queue in program order: line 462
\* (kill), lines 463 and 466 (the slot is emptied), lines 472-477 (b'q' is
\* written and flushed, attempted only if poll() is None), line 486 (put).
\* The function has no wait() or communicate().
StopEffects(p, rec, running) ==
    IF p = 0 \/ rec = NoInfo
    THEN (IF p # 0 /\ running THEN <<"kill">> ELSE <<>>) \o <<"clear_slot">>
    ELSE <<"clear_slot">> \o (IF running THEN <<"write_q">> ELSE <<>>) \o <<"put">>

\* The encoder in the slot has not exited (poll() is None).
SlotRunning == current_ffmpeg_process # 0 /\ procs[current_ffmpeg_process].running

\* A call of submit_to_finalization_queue(reason) by the main thread.
Stop(reason, qok) ==
    LET p == current_ffmpeg_process
        r == submit_to_finalization_queue(p, current_recording_info,
                 finalization_task_queue, SlotRunning, reason, qok)
    IN /\ current_ffmpeg_process' = r.proc
       /\ current_recording_info' = r.info
       /\ finalization_task_queue' = r.queue
       /\ procs' = IF r.kill THEN [procs EXCEPT ![p] = Exited(@, KilledCode)] ELSE procs
       /\ IF r.put
          THEN /\ unfinished_tasks' = unfinished_tasks + 1
               /\ enqueued' = [enqueued EXCEPT ![p] = @ + 1]
               /\ queuedBeforeStop' = IF stop_worker_event THEN queuedBeforeStop
                                      ELSE queuedBeforeStop \cup {p}
          ELSE UNCHANGED <<unfinished_tasks, enqueued, queuedBeforeStop>>

(* --------------------------- main thread ------------------------------ *)

\* Lines 572-583: authentication fails; the flag is set and the command returns.
AuthFailed ==
    /\ pc = "setup"
    /\ stop_worker_event' = TRUE
    /\ pc' = "main_finally"
    /\ UNCHANGED <<sanVars, cfgVars, slotVars, persisted_recorded_ids, attemptVars,
                   queueVars, workerVars, procs, files, ledger>>

\* Lines 585-588: the ledger is loaded; a TypeError leaves the command
\* through main's `except Exception`.
LoadLedger ==
    /\ pc = "setup"
    /\ LET r == load_recorded_ids(ledger)
       IN IF r.raised
          THEN pc' = "main_finally" /\ UNCHANGED persisted_recorded_ids
          ELSE pc' = "poll" /\ persisted_recorded_ids' = r.ids
    /\ UNCHANGED <<sanVars, cfgVars, slotVars, attemptVars, queueVars,
                   stop_worker_event, workerVars, procs, files, ledger>>

\* Lines 592-639: one iteration of the poll loop.  info is what
\* get_current_track returns, launch how mkdir/Popen turn out if Start is
\* called, qok whether a graceful-stop write succeeds if Stop is called.
PollTick(info, launch, qok) ==
    /\ pc = "poll"
    /\ ~stop_worker_event
    /\ IF SessionActive(current_ffmpeg_process)
       THEN LET why == StopReasonOf(procs[current_ffmpeg_process], info,
                                    current_recording_info)
            IN /\ IF why # "" THEN Stop(why, qok)
                  ELSE UNCHANGED <<slotVars, queueVars, procs>>
               /\ UNCHANGED <<pc, attemptVars>>
       ELSE IF ~Detected(info)
                 \/ AlreadyHandled(info.id, persisted_recorded_ids, session_attempted_ids)
       THEN UNCHANGED <<pc, slotVars, queueVars, procs, attemptVars>>
       ELSE IF organize
       \* line 619: artists is a list of strings, so .get raises (an empty
       \* list raises IndexError); caught at line 641
       THEN /\ pc' = "loop_exit"
            /\ UNCHANGED <<slotVars, queueVars, procs, attemptVars>>
       ELSE IF skip_existing_file /\ files[info.id].exists
       THEN /\ session_attempted_ids' = session_attempted_ids \cup {info.id}
            /\ UNCHANGED <<pc, slotVars, queueVars, procs, too_short_calls,
                           target_dir_made>>
       ELSE LET res == StartResult(info, format, launch)
            IN /\ IF res = "ok" THEN StartSession(info)
                  ELSE UNCHANGED <<slotVars, procs>>
               /\ session_attempted_ids' =
                      IF res = "ok" \/ MarkedOnFailure(info.id)
                      THEN session_attempted_ids \cup {info.id}
                      ELSE session_attempted_ids
               /\ too_short_calls' = IF res = "too_short"
                                     THEN [too_short_calls EXCEPT ![info.id] = @ + 1]
                                     ELSE too_short_calls
               /\ target_dir_made' = (target_dir_made \/ ReachesMkdir(res, launch))
               /\ UNCHANGED <<pc, queueVars>>
    /\ UNCHANGED <<sanVars, cfgVars, persisted_recorded_ids, stop_worker_event, workerVars,
                   files, ledger>>

\* Line 640: KeyboardInterrupt raised inside the loop.
Interrupt ==
    /\ pc = "poll"
    /\ pc' = "loop_exit"
    /\ UNCHANGED <<sanVars, cfgVars, slotVars, persisted_recorded_ids, attemptVars,
                   queueVars, stop_worker_event, workerVars, procs, files, ledger>>

\* Lines 642-643: the finally clause of the record loop.
RecordLoopFinally(qok) ==
    /\ pc = "loop_exit"
    /\ IF SessionActive(current_ffmpeg_process)
       THEN Stop("Record loop ended or error", qok)
       ELSE UNCHANGED <<slotVars, queueVars, procs>>
    /\ pc' = "main_finally"
    /\ UNCHANGED <<sanVars, cfgVars, persisted_recorded_ids, attemptVars,
                   stop_worker_event, workerVars, files, ledger>>

\* KeyboardInterrupt raised in the except/finally clauses of lines 640-643
\* before the Stop call has read the slot: it propagates to main's handler
\* at line 741 with the slot untouched.
InterruptInExit ==
    /\ pc = "loop_exit"
    /\ pc' = "main_finally"
    /\ UNCHANGED <<sanVars, cfgVars, slotVars, persisted_recorded_ids, attemptVars,
                   queueVars, stop_worker_event, workerVars, procs, files, ledger>>

\* Lines 747-748: main's finally sets the shutdown flag.
MainSetFlag ==
    /\ pc = "main_finally"
    /\ stop_worker_event' = TRUE
    /\ pc' = "shutdown_submit"
    /\ UNCHANGED <<sanVars, cfgVars, slotVars, persisted_recorded_ids, attemptVars,
                   queueVars, workerVars, procs, files, ledger>>

\* Lines 750-752: a session still active and still running is submitted.
MainShutdownSubmit(qok) ==
    /\ pc = "shutdown_submit"
    /\ IF SessionActive(current_ffmpeg_process) /\ procs[current_ffmpeg_process].running
       THEN Stop("Shutdown signal to main thread", qok)
       ELSE UNCHANGED <<slotVars, queueVars, procs>>
    /\ pc' = "check_alive"
    /\ UNCHANGED <<sanVars, cfgVars, persisted_recorded_ids, attemptVars,
                   stop_worker_event, workerVars, files, ledger>>

\* Line 754: `if worker and worker.is_alive()`; otherwise the process exits.
MainCheckAlive ==
    /\ pc = "check_alive"
    /\ pc' = IF wpc # "dead" THEN "queue_join" ELSE "exited"
    /\ UNCHANGED <<sanVars, cfgVars, slotVars, persisted_recorded_ids, attemptVars,
                   queueVars, stop_worker_event, workerVars, procs, files, ledger>>

\* Line 758: finalization_task_queue.join() returns when nothing is unfinished.
MainQueueJoin ==
    /\ pc = "queue_join"
    /\ unfinished_tasks = 0
    /\ pc' = "worker_join"
    /\ UNCHANGED <<sanVars, cfgVars, slotVars, persisted_recorded_ids, attemptVars,
                   queueVars, stop_worker_event, workerVars, procs, files, ledger>>

\* Lines 760-765: worker.join(timeout=30) returns, because the thread ended
\* or because the timeout ran out; the process exits either way.
MainWorkerJoin ==
    /\ pc = "worker_join"
    /\ pc' = "exited"
    /\ UNCHANGED <<sanVars, cfgVars, slotVars, persisted_recorded_ids, attemptVars,
                   queueVars, stop_worker_event, workerVars, procs, files, ledger>>

(* ---------------------------- environment ---------------------------- *)

\* An encoder exits by itself (duration reached, 'q' read, or an error),
\* leaving f at its output path.
EncoderExit(s, code, f) ==
    /\ pc # "exited"
    /\ s \in Started
    /\ procs[s].running
    /\ procs' = [procs EXCEPT ![s] = Exited(@, code)]
    /\ files' = [files EXCEPT ![procs[s].track_id] = f]
    /\ UNCHANGED <<sanVars, cfgVars, pc, slotVars, persisted_recorded_ids, attemptVars,
                   queueVars, stop_worker_event, workerVars, ledger>>

(* ------------------------- finalization worker ------------------------ *)

\* Mutant: the size of the file is not looked at.
FileOkAnySize(f) == f.exists

\* Line 346: file_ok_initially, and the same test at line 362.
FileOk(f) == f.exists /\ f.size > MinFileSize

\* Line 347.
EarlyStopReasons ==
    {"Track changed", "Playback stopped or track unavailable", "User interrupted",
     "Shutdown", "Main loop error"}

\* Lines 331 and 339.
GracefulStopByQ(sent, ec) == sent /\ (ec = 0 \/ ec = 255)

\* Line 348.
ValidInitialExit(ec, graceful) == ec = 0 \/ graceful

\* Line 350: the task is discarded.
Rejected(ec, graceful, why, f) ==
    ~(ValidInitialExit(ec, graceful) \/ (why \in EarlyStopReasons /\ FileOk(f)))

\* How the second ffmpeg pass and the replacement of the original turn out:
\* a result above the threshold, a result of exactly the threshold, a failed
\* pass (non-zero exit, small result, timeout), or an error between unlink
\* and rename.
RewriteOutcomes == {"ok_big", "ok_edge", "fail", "replace_error"}

\* rewrite_audio_file: its return value and what is at audio_path afterwards.
rewrite_audio_file(f, rw) ==
    IF ~f.exists \/ f.size < MinFileSize THEN [ok |-> FALSE, file |-> f]
    ELSE CASE rw = "ok_big" -> [ok |-> TRUE, file |-> FileOf(2 * MinFileSize)]
           [] rw = "ok_edge" -> [ok |-> TRUE, file |-> FileOf(MinFileSize)]
           [] rw = "replace_error" -> [ok |-> FALSE, file |-> NoFile]
           [] OTHER -> [ok |-> FALSE, file |-> f]

\* Mutant: the log file is opened in write mode, which truncates it.
AppendLineMut(lines, entry) == <<entry>>

\* Line 384: the log file is opened in append mode and one line is written.
AppendLine(lines, entry) == Append(lines, entry)

\* queue.task_done() for the task of session s.
TaskDone(s) ==
    /\ unfinished_tasks' = unfinished_tasks - 1
    /\ done' = [done EXCEPT ![s] = @ + 1]

\* The iteration ends: its locals are dead, the loop condition is next.
EndIteration ==
    /\ wpc' = "idle"
    /\ task' = NoTask
    /\ exit_c' = NoExitCode
    /\ graceful_stop_by_q' = FALSE

\* Sessions whose tasks are waiting in the queue.
Queued == {finalization_task_queue[i].process_obj : i \in DOMAIN finalization_task_queue}

\* Mutant: the handler leaves the loop after marking the task done.
HandleExceptionMut ==
    /\ TaskDone(task.process_obj)
    /\ raised' = raised \cup {task.process_obj}
    /\ pendingAtRaise' = pendingAtRaise \cup Queued
    /\ wpc' = "stopping"
    /\ task' = NoTask
    /\ exit_c' = NoExitCode
    /\ graceful_stop_by_q' = FALSE

\* Lines 396-399: the handler of an unexpected exception; the loop goes on.
HandleException ==
    /\ TaskDone(task.process_obj)
    /\ raised' = raised \cup {task.process_obj}
    /\ pendingAtRaise' = pendingAtRaise \cup Queued
    /\ EndIteration

\* Lines 317-324: the loop condition holds and get() returns a task.
WorkerGet ==
    /\ pc # "exited"
    /\ wpc = "idle"
    /\ finalization_task_queue # <<>>
    /\ task' = Head(finalization_task_queue)
    /\ finalization_task_queue' = Tail(finalization_task_queue)
    /\ dequeued' = [dequeued EXCEPT ![Head(finalization_task_queue).process_obj] = @ + 1]
    /\ wpc' = "reap"
    /\ exit_c' = NoExitCode
    /\ graceful_stop_by_q' = FALSE
    /\ UNCHANGED <<sanVars, cfgVars, pc, slotVars, persisted_recorded_ids, attemptVars,
                   unfinished_tasks, enqueued, queuedBeforeStop, stop_worker_event,
                   done, raised, pendingAtRaise, outcomeVars, procs, files, ledger>>

\* Mutant: the loop ends on the flag alone.
MayLeaveLoopMut(flag, q) == flag

\* Lines 317 and 394-395: the worker may leave its loop.
MayLeaveLoop(flag, q) == flag /\ q = <<>>

\* Mutant: on leaving its loop the worker empties the session slot.
WorkerBreakClearsSlot ==
    /\ pc # "exited"
    /\ wpc = "idle"
    /\ MayLeaveLoop(stop_worker_event, finalization_task_queue)
    /\ wpc' = "stopping"
    /\ current_ffmpeg_process' = 0
    /\ current_recording_info' = NoInfo
    /\ UNCHANGED <<sanVars, cfgVars, pc, persisted_recorded_ids, attemptVars,
                   queueVars, stop_worker_event, task, exit_c, graceful_stop_by_q,
                   dequeued, done, raised, pendingAtRaise, outcomeVars, procs, files, ledger>>

\* Lines 317 and 394-395: the loop ends.
WorkerBreak ==
    /\ pc # "exited"
    /\ wpc = "idle"
    /\ MayLeaveLoop(stop_worker_event, finalization_task_queue)
    /\ wpc' = "stopping"
    /\ UNCHANGED <<sanVars, cfgVars, pc, slotVars, persisted_recorded_ids, attemptVars,
                   queueVars, stop_worker_event, task, exit_c, graceful_stop_by_q,
                   dequeued, done, raised, pendingAtRaise, outcomeVars, procs, files, ledger>>

\* Line 401: the thread function returns; is_alive() is False from here on.
WorkerReturn ==
    /\ pc # "exited"
    /\ wpc = "stopping"
    /\ wpc' = "dead"
    /\ UNCHANGED <<sanVars, cfgVars, pc, slotVars, persisted_recorded_ids, attemptVars,
                   queueVars, stop_worker_event, task, exit_c, graceful_stop_by_q,
                   dequeued, done, raised, pendingAtRaise, outcomeVars, procs, files, ledger>>

\* Lines 327-332 and 337-342: the encoder has exited (before the task was
\* taken, or within communicate's 20 s).
WorkerReapExited ==
    /\ pc # "exited"
    /\ wpc = "reap"
    /\ ~procs[task.process_obj].running
    /\ exit_c' = procs[task.process_obj].returncode
    /\ graceful_stop_by_q' =
           GracefulStopByQ(task.q_sent_by_main, procs[task.process_obj].returncode)
    /\ wpc' = "finalize"
    /\ UNCHANGED <<sanVars, cfgVars, pc, slotVars, persisted_recorded_ids, attemptVars,
                   queueVars, stop_worker_event, task, dequeued, done, raised,
                   pendingAtRaise, outcomeVars, procs, files, ledger>>

\* Lines 333-336: communicate timed out, the encoder is killed and reaped
\* within 5 s, leaving f at its output path.
WorkerReapKill(f) ==
    /\ pc # "exited"
    /\ wpc = "reap"
    /\ procs[task.process_obj].running
    /\ procs' = [procs EXCEPT ![task.process_obj] = Exited(@, KilledCode)]
    /\ files' = [files EXCEPT ![task.track_id] = f]
    /\ exit_c' = KilledCode
    /\ graceful_stop_by_q' = FALSE
    /\ wpc' = "finalize"
    /\ UNCHANGED <<sanVars, cfgVars, pc, slotVars, persisted_recorded_ids, attemptVars,
                   queueVars, stop_worker_event, task, dequeued, done, raised,
                   pendingAtRaise, outcomeVars, ledger>>

\* Lines 333-336: communicate timed out, but the encoder exits by itself
\* before kill() reaches it; exit_c is its own return code and
\* graceful_stop_by_q keeps its initial False.
WorkerReapLateExit(code, f) ==
    /\ pc # "exited"
    /\ wpc = "reap"
    /\ procs[task.process_obj].running
    /\ procs' = [procs EXCEPT ![task.process_obj] = Exited(@, code)]
    /\ files' = [files EXCEPT ![task.track_id] = f]
    /\ exit_c' = code
    /\ graceful_stop_by_q' = FALSE
    /\ wpc' = "finalize"
    /\ UNCHANGED <<sanVars, cfgVars, pc, slotVars, persisted_recorded_ids, attemptVars,
                   queueVars, stop_worker_event, task, dequeued, done, raised,
                   pendingAtRaise, outcomeVars, ledger>>

\* Line 335: the 5 s wait after kill() times out too; TimeoutExpired leaves
\* the inner handler and is caught at line 396.
WorkerReapKillTimeout ==
    /\ pc # "exited"
    /\ wpc = "reap"
    /\ procs[task.process_obj].running
    /\ HandleException
    /\ UNCHANGED <<sanVars, cfgVars, pc, slotVars, persisted_recorded_ids, attemptVars,
                   finalization_task_queue, enqueued, queuedBeforeStop, stop_worker_event,
                   dequeued, outcomeVars, procs, files, ledger>>

\* Where an unexpected exception can hit the rest of the processing: not at
\* all, before the classification, or at the ledger append.
Raises == {"none", "early", "append"}

\* Lines 344-393: classification, header repair, tagging, ledger append.
WorkerFinalize(rw, exc) ==
    /\ pc # "exited"
    /\ wpc = "finalize"
    /\ LET s == task.process_obj
           f == files[task.track_id]
           rew == IF FileOk(f) THEN rewrite_audio_file(f, rw)
                  ELSE [ok |-> FALSE, file |-> f]
       IN IF exc = "early"
          THEN HandleException /\ UNCHANGED <<files, ledger, outcomeVars>>
          ELSE IF Rejected(exit_c, graceful_stop_by_q, task.stop_reason, f)
          THEN /\ files' = IF f.exists /\ ~FileOk(f)
                           THEN [files EXCEPT ![task.track_id] = NoFile]
                           ELSE files
               /\ discarded' = discarded \cup {s}
               /\ TaskDone(s)
               /\ EndIteration
               /\ UNCHANGED <<ledger, finalized, repaired, tagged, raised, pendingAtRaise>>
          ELSE /\ files' = [files EXCEPT ![task.track_id] = rew.file]
               /\ repaired' = IF FileOk(f) THEN repaired \cup {s} ELSE repaired
               /\ tagged' = IF FileOk(rew.file) THEN tagged \cup {s} ELSE tagged
               /\ UNCHANGED discarded
               /\ IF FileOk(rew.file) /\ exc = "append"
                  THEN HandleException /\ UNCHANGED <<ledger, finalized>>
                  ELSE /\ IF FileOk(rew.file)
                          THEN /\ ledger' = AppendLine(ledger,
                                      EntryLine(task.track_id, s, rew.ok))
                               /\ finalized' = finalized \cup {s}
                          ELSE UNCHANGED <<ledger, finalized>>
                       /\ TaskDone(s)
                       /\ EndIteration
                       /\ UNCHANGED <<raised, pendingAtRaise>>
    \* the Popen object goes with the task
    /\ procs' = [procs EXCEPT ![task.process_obj].returncode = 0]
    /\ UNCHANGED <<sanVars, cfgVars, pc, slotVars, persisted_recorded_ids, attemptVars,
                   finalization_task_queue, enqueued, queuedBeforeStop, stop_worker_event,
                   dequeued>>

(* --------------------------- specification ---------------------------- *)

MainThread ==
    \/ AuthFailed
    \/ LoadLedger
    \/ \E info \in Snapshots(playlist), launch \in LaunchOutcomes, qok \in BOOLEAN :
           PollTick(info, launch, qok)
    \/ Interrupt
    \/ \E qok \in BOOLEAN : RecordLoopFinally(qok)
    \/ InterruptInExit
    \/ MainSetFlag
    \/ \E qok \in BOOLEAN : MainShutdownSubmit(qok)
    \/ MainCheckAlive
    \/ MainQueueJoin
    \/ MainWorkerJoin

Worker ==
    \/ WorkerGet
    \/ WorkerBreak
    \/ WorkerReturn
    \/ WorkerReapExited
    \/ \E f \in FileStates : WorkerReapKill(f)
    \/ \E code \in ExitCodes, f \in FileStates : WorkerReapLateExit(code, f)
    \/ WorkerReapKillTimeout
    \/ \E rw \in RewriteOutcomes, exc \in Raises : WorkerFinalize(rw, exc)

Environment ==
    \E s \in Sessions, code \in ExitCodes, f \in FileStates : EncoderExit(s, code, f)

Next == MainThread \/ Worker \/ Environment

Spec == Init /\ [][Next]_vars

\* The steps of the shutdown path of the main thread: the record loop's
\* finally (line 643) and main's finally (lines 746-765).  None of them waits
\* for input; queue.join() is the only one that can block.
MainShutdown ==
    \/ \E qok \in BOOLEAN : RecordLoopFinally(qok)
    \/ MainSetFlag
    \/ \E qok \in BOOLEAN : MainShutdownSubmit(qok)
    \/ MainCheckAlive
    \/ MainQueueJoin
    \/ MainWorkerJoin

\* The program under fair scheduling: the worker thread keeps running while
\* it has a step to take (get(timeout=1) returns or times out, the waits of
\* lines 329 and 335 are bounded, line 304's subprocess.run has a timeout),
\* and so does the main thread once it is on its shutdown path.
LiveSpec == Init /\ [][Next]_vars /\ WF_vars(Worker) /\ WF_vars(MainShutdown)

(* ------------------ sanitize_for_filesystem on its own ---------------- *)

\* The function is applied to an input, and then to its own result.
SanInit ==
    /\ ProgramInit(World(Config(FALSE, FALSE, "flac"), {"T3"}, <<>>, NoFiles))
    /\ san_pc = "in"
    /\ san_text \in SanInputs
    /\ san_once = <<>>
    /\ san_twice = <<>>

Sanitize ==
    /\ san_pc = "in"
    /\ san_once' = sanitize_for_filesystem(san_text, max_len)
    /\ san_pc' = "once"
    /\ UNCHANGED <<progVars, san_text, san_twice>>

SanitizeAgain ==
    /\ san_pc = "once"
    /\ san_twice' = sanitize_for_filesystem(san_once, max_len)
    /\ san_pc' = "twice"
    /\ UNCHANGED <<progVars, san_text, san_once>>

SanNext == Sanitize \/ SanitizeAgain

SanSpec == SanInit /\ [][SanNext]_vars

(* ------------------------------ claims -------------------------------- *)

\* Sessions started and not yet handed to the finalization queue.
Live == {s \in Started : enqueued[s] = 0}

\* The ledger lines written by session s in this run.
LinesOf(s) == {i \in DOMAIN ledger : ledger[i].sid = s}

\* Track ids of the well-formed lines the ledger file held when the run began.
PriorIds == {ledger[i].track_id :
                i \in {j \in DOMAIN ledger : ledger[j].sid = 0 /\ ledger[j].kind = "entry"}}

\* The worker has left its loop.
WorkerLeft == wpc \in {"stopping", "dead"}

\* The worker holds a dequeued task.
WorkerBusy == wpc \in {"reap", "finalize"}

\* C1: at most one capture session is active at any time: a session is
\* started only in a step that begins with the slot empty, and every session
\* not yet handed to the queue is the one in the slot, so no session is
\* overwritten by a second Start.
C1_AtMostOneSession ==
    /\ [](\A s \in Live : current_ffmpeg_process = s)
    /\ [][Len(procs') > Len(procs) => current_ffmpeg_process = 0]_vars

\* A second session is recording after the first was handed off.
C1_Witness ==
    /\ Len(procs) = 2
    /\ current_ffmpeg_process = 2
    /\ enqueued[1] = 1

\* C2: every session that was started is enqueued exactly once, never twice
\* at any time and never zero times once the process has exited, whichever
\* way the session ended.
C2_ExactlyOneTask ==
    /\ \A s \in Started : enqueued[s] <= 1
    /\ pc = "exited" => \A s \in Started : enqueued[s] = 1

\* C3: every enqueued task is dequeued exactly once and processed exactly
\* once: never more than once at any time, and once each by the time the
\* process has exited.
C3_DequeuedOnce ==
    /\ \A s \in Sessions : dequeued[s] <= enqueued[s] /\ dequeued[s] <= 1
                              /\ done[s] <= dequeued[s]
    /\ pc = "exited" => \A s \in Sessions : dequeued[s] = enqueued[s]
                                             /\ done[s] = dequeued[s]

\* The worker's side of C3: no task is dequeued or processed more often than
\* it was enqueued, nor more than once; what the worker took is not in the
\* queue again.
C3_AtMostOnce ==
    /\ \A s \in Sessions : dequeued[s] <= enqueued[s] /\ dequeued[s] <= 1
                              /\ done[s] <= dequeued[s]
    /\ \A s \in Queued : dequeued[s] = 0

\* C4: the worker leaves its loop only from a state where the flag is set
\* and the queue is empty, and once it has left, every task enqueued before
\* the flag was set has been dequeued and processed.
C4_DrainBeforeExit ==
    /\ [](WorkerLeft => \A s \in queuedBeforeStop : dequeued[s] = 1 /\ done[s] = 1)
    /\ [][(wpc = "idle" /\ wpc' = "stopping")
              => (stop_worker_event /\ finalization_task_queue = <<>>)]_vars

\* The worker has ended after processing a task enqueued before shutdown.
C4_Witness ==
    /\ wpc = "dead"
    /\ queuedBeforeStop # {}

\* C5: shutdown drops no in-flight work: the worker has not left its loop
\* while a task waits in the queue (it cannot leave before the shutdown-time
\* task is enqueued), and when the process exits every enqueued task has
\* been processed.
C5_ShutdownDropsNothing ==
    /\ WorkerLeft => finalization_task_queue = <<>>
    /\ pc = "exited" => /\ finalization_task_queue = <<>>
                        /\ \A s \in Sessions : enqueued[s] >= 1 => done[s] = 1

\* C6: no session is ever started for a track id that the ledger file held
\* as track_id when the run began.
C6_Dedup == \A s \in Started : procs[s].track_id \notin PriorIds

\* A run whose ledger already held T1 has recorded and handed off another
\* track and is polling again.
C6_Witness ==
    /\ "T1" \in PriorIds
    /\ pc = "poll"
    /\ Len(procs) = 1
    /\ enqueued[1] = 1

\* C7: each task appends at most one ledger line, exactly one when it is
\* reported as finalized, and every step leaves the existing lines in place,
\* adding at most one line at the end.
C7_LedgerAppendOnly ==
    /\ [](\A s \in Sessions : /\ Cardinality(LinesOf(s)) <= 1
                              /\ s \in finalized => Cardinality(LinesOf(s)) = 1)
    /\ [][/\ Len(ledger) <= Len(ledger')
          /\ Len(ledger') <= Len(ledger) + 1
          /\ SubSeq(ledger', 1, Len(ledger)) = ledger]_vars

\* Two tasks have been finalized, each with its own line.
C7_Witness ==
    /\ Cardinality(finalized) = 2
    /\ Len(ledger) = 2

\* C8: finalizing a task whose output file exists with a size of at most
\* 1024 bytes ends (when nothing raises) with the file deleted, no ledger
\* line appended and the task marked done, whatever the exit code and the
\* stop reason.
C8_UndersizedDeleted ==
    [][(/\ wpc = "finalize"
        /\ wpc' = "idle"
        /\ raised' = raised
        /\ files[task.track_id].exists
        /\ files[task.track_id].size <= MinFileSize)
           => (/\ ~files'[task.track_id].exists
               /\ ledger' = ledger
               /\ done'[task.process_obj] = done[task.process_obj] + 1)]_vars

\* C9: every dequeued task is marked done exactly once, the unfinished count
\* is the number of tasks queued or held by the worker, and a caller blocked
\* in join is not left waiting for a worker that has left its loop.
C9_TaskDoneOnce ==
    /\ \A s \in Sessions : done[s] <= dequeued[s] /\ done[s] <= 1
    /\ unfinished_tasks = Len(finalization_task_queue) + (IF WorkerBusy THEN 1 ELSE 0)
    /\ (pc = "queue_join" /\ WorkerLeft) => unfinished_tasks = 0

\* The worker's side of C9: task_done at most once per dequeued task, and
\* the unfinished count is the number of tasks queued or held by the worker.
C9_DoneMatches ==
    /\ \A s \in Sessions : done[s] <= dequeued[s] /\ done[s] <= 1
    /\ unfinished_tasks = Len(finalization_task_queue) + (IF WorkerBusy THEN 1 ELSE 0)

\* C10: an exception raised while a task is processed puts the worker back
\* at the head of its loop, and every task that was waiting in the queue at
\* that moment has been dequeued and processed by the time the worker
\* leaves the loop.
C10_FailureIsolation ==
    /\ [](WorkerLeft => \A s \in pendingAtRaise : dequeued[s] = 1 /\ done[s] = 1)
    /\ [][raised' # raised => wpc' = "idle"]_vars

\* A task raised while another waited, and the worker has since processed
\* the other one and ended.
C10_Witness ==
    /\ wpc = "dead"
    /\ raised # {}
    /\ pendingAtRaise # {}
    /\ \A s \in pendingAtRaise : done[s] = 1

\* The reasons the call sites pass to submit_to_finalization_queue (lines
\* 605-607, 643 and 752).
StopReasons ==
    {"FFmpeg process ended", "Playback stopped or track unavailable", "Track changed",
     "Record loop ended or error", "Shutdown signal to main thread"}

\* C11: Stop is idempotent and never double-enqueues: in every reachable
\* state a call of submit_to_finalization_queue with no active session
\* leaves the queue and the slot as they are and puts nothing, a second call
\* right after a first one changes nothing more, and no session is ever
\* enqueued more than once, however many stop sites run after its Start.
C11_StopIdempotent ==
    /\ \A reason \in StopReasons, qok \in BOOLEAN :
           LET r1 == submit_to_finalization_queue(current_ffmpeg_process,
                         current_recording_info, finalization_task_queue,
                         SlotRunning, reason, qok)
               r2 == submit_to_finalization_queue(r1.proc, r1.info, r1.queue,
                         r1.proc # 0 /\ procs[r1.proc].running, reason, qok)
           IN /\ current_ffmpeg_process = 0 =>
                     /\ r1.proc = current_ffmpeg_process
                     /\ r1.info = current_recording_info
                     /\ r1.queue = finalization_task_queue
                     /\ ~r1.put /\ ~r1.kill
              /\ r2.proc = r1.proc /\ r2.info = r1.info /\ r2.queue = r1.queue
              /\ ~r2.put
    /\ \A s \in Started : enqueued[s] <= 1

\* A session was stopped by a poll tick on a track change; the record
\* loop's finally and main's shutdown path have both run since, and the
\* session's task is still the only one enqueued for it.
C11_Witness ==
    /\ pc = "check_alive"
    /\ Len(procs) = 1
    /\ enqueued[1] = 1
    /\ finalization_task_queue # <<>>
    /\ Head(finalization_task_queue).stop_reason = "Track changed"

\* C12: duration floor: a poll tick that reaches start_recording with a
\* snapshot whose nominal duration is below min_duration gets False back,
\* creates no session, no directory, no encoder process and no file, and
\* marks the id attempted in that same tick; start_recording is called at
\* most once per such id in a run, and no session ever exists for one.
C12_DurationFloor ==
    /\ [](/\ \A id \in Tracks : /\ too_short_calls[id] <= 1
                                /\ too_short_calls[id] = 1 => id \in session_attempted_ids
          /\ \A s \in Started : DurationMs(procs[s].track_id) >= min_duration * 1000)
    /\ [][\A id \in Tracks :
              too_short_calls'[id] # too_short_calls[id] =>
                  /\ DurationMs(id) < min_duration * 1000
                  /\ procs' = procs
                  /\ UNCHANGED slotVars
                  /\ target_dir_made' = target_dir_made
                  /\ files' = files
                  /\ id \in session_attempted_ids']_vars
    /\ [][(pc = "poll" /\ current_ffmpeg_process = 0 /\ ~organize) =>
              \A info \in Snapshots(playlist), launch \in LaunchOutcomes, qok \in BOOLEAN :
                  (/\ info.present /\ info.is_playing /\ info.id # ""
                   /\ info.id \notin persisted_recorded_ids \cup session_attempted_ids
                   /\ ~(skip_existing_file /\ files[info.id].exists)
                   /\ DurationMs(info.id) < min_duration * 1000
                   /\ PollTick(info, launch, qok))
                      => too_short_calls'[info.id] = too_short_calls[info.id] + 1]_vars

\* The short track was offered to start_recording once; since then another
\* track has been recorded and handed off, and the poller is looking again.
C12_Witness ==
    /\ too_short_calls["T2"] = 1
    /\ pc = "poll"
    /\ Len(procs) = 1
    /\ current_ffmpeg_process = 0

\* C13: track change mid-capture: a poll tick that finds a session active
\* with its encoder still running and fetches a playing snapshot whose id
\* differs from the session's appends exactly one task to the queue, carrying
\* the session's process and track and the reason "Track changed", enqueues
\* that session for the first and only time and leaves the slot empty.
C13_TrackChanged ==
    [][(pc = "poll" /\ current_ffmpeg_process # 0) =>
         \A info \in Snapshots(playlist), launch \in LaunchOutcomes, qok \in BOOLEAN :
           (/\ procs[current_ffmpeg_process].running
            /\ info.present /\ info.is_playing
            /\ info.id # current_recording_info.track_id
            /\ PollTick(info, launch, qok))
               => /\ Len(finalization_task_queue') = Len(finalization_task_queue) + 1
                  /\ SubSeq(finalization_task_queue', 1, Len(finalization_task_queue))
                         = finalization_task_queue
                  /\ LET t == finalization_task_queue'[Len(finalization_task_queue')]
                     IN /\ t.stop_reason = "Track changed"
                        /\ t.process_obj = current_ffmpeg_process
                        /\ t.track_id = current_recording_info.track_id
                        /\ t.track_id = procs[current_ffmpeg_process].track_id
                  /\ enqueued[current_ffmpeg_process] = 0
                  /\ enqueued'[current_ffmpeg_process] = 1
                  /\ current_ffmpeg_process' = 0
                  /\ current_recording_info' = NoInfo]_vars

\* The session for T1 has been handed off with the reason "Track changed"
\* while its encoder was still running, and the slot is empty.
C13_Witness ==
    /\ Len(procs) = 1
    /\ procs[1].track_id = "T1"
    /\ procs[1].running
    /\ current_ffmpeg_process = 0
    /\ finalization_task_queue # <<>>
    /\ Head(finalization_task_queue).stop_reason = "Track changed"
    /\ Head(finalization_task_queue).process_obj = 1

\* C14: no automatic retry within a run: no two sessions of a run are for
\* the same track id, whatever became of the first one; every id a session
\* was started for is in the attempted set, and that set never shrinks.
C14_NoRetry ==
    /\ [](/\ \A s1, s2 \in Started : s1 # s2 => procs[s1].track_id # procs[s2].track_id
          /\ \A s \in Started : procs[s].track_id \in session_attempted_ids)
    /\ [][session_attempted_ids \subseteq session_attempted_ids']_vars

\* The first capture was rejected by the worker, and the poller has since
\* started a session, for another track.
C14_Witness ==
    /\ Len(procs) = 2
    /\ 1 \in discarded
    /\ done[1] = 1
    /\ current_ffmpeg_process = 2

\* The characters the sanitizer's output may contain.
AllowedChars == Letters \cup Digits \cup {" ", ".", "_", "-"}

\* C15: sanitizer idempotence: applying sanitize_for_filesystem to its own
\* result gives that result again, for every input, those longer than
\* max_len with a space or an underscore at the cut included.
C15_SanitizeIdempotent == san_pc = "twice" => san_twice = san_once

\* The part of C15 that holds: idempotence for the inputs that are not cut,
\* and for those whose result does not end in a space.
C15_IdempotentUnlessCutAtSpace ==
    (san_pc = "twice" /\ (Len(san_text) <= max_len \/ san_once = <<>>
                            \/ san_once[Len(san_once)] # " "))
        => san_twice = san_once

\* C16: sanitizer output shape: the result holds only letters, digits,
\* space, '.', '_' and '-', and is at most 70 characters long.
C16_SanitizeShape ==
    san_pc \in {"once", "twice"} =>
        /\ Len(san_once) <= 70
        /\ \A i \in DOMAIN san_once : san_once[i] \in AllowedChars

\* An input longer than the bound, holding a character that is replaced,
\* has been sanitized to a result of full length.
C16_Witness ==
    /\ san_pc = "once"
    /\ Len(san_text) > max_len
    /\ \E i \in DOMAIN san_text : san_text[i] \notin AllowedChars
    /\ Len(san_once) = 70

\* C17: for an eligible snapshot (duration at least min_duration, a
\* supported format, a launch that succeeds) the tick that calls
\* start_recording launches exactly one encoder whose -t argument is
\* max(0.1 s, nominal duration + recording buffer); the session stored in the
\* slot holds the same value, and no encoder ever runs with a target below
\* 0.1 s, whatever the buffer.  Durations are in milliseconds.
C17_TargetDuration ==
    /\ [](/\ \A s \in Started :
                 LET sum == DurationMs(procs[s].track_id) + recording_buffer
                 IN /\ sum >= 100 => procs[s].t = sum
                    /\ sum < 100 => procs[s].t = 100
                    /\ procs[s].t >= 100
          /\ current_ffmpeg_process # 0 =>
                 current_recording_info.expected_duration_sec
                     = procs[current_ffmpeg_process].t)
    /\ [][Len(procs') <= Len(procs) + 1]_vars
    /\ [][(pc = "poll" /\ current_ffmpeg_process = 0 /\ ~organize) =>
              \A info \in Snapshots(playlist), qok \in BOOLEAN :
                  (/\ info.present /\ info.is_playing /\ info.id # ""
                   /\ info.id \notin persisted_recorded_ids \cup session_attempted_ids
                   /\ ~(skip_existing_file /\ files[info.id].exists)
                   /\ DurationMs(info.id) >= min_duration * 1000
                   /\ format \in {"ogg", "flac"}
                   /\ PollTick(info, "ok", qok))
                      => /\ Len(procs') = Len(procs) + 1
                         /\ procs'[Len(procs')].running
                         /\ procs'[Len(procs')].track_id = info.id
                         /\ current_ffmpeg_process' = Len(procs')
                         /\ current_recording_info'.track_id = info.id]_vars

\* With a buffer of -40 s a 30 s track is being recorded, for 0.1 s.
C17_Witness ==
    /\ recording_buffer = LongNegativeBuffer
    /\ current_ffmpeg_process = 1
    /\ procs[1].track_id = "T3"
    /\ procs[1].t = 100
    /\ current_recording_info.expected_duration_sec = 100

\* With the default buffer a 200 s track is being recorded, for 199.8 s.
C17_WitnessDefault ==
    /\ recording_buffer = DefaultBuffer
    /\ current_ffmpeg_process = 1
    /\ procs[1].track_id = "T1"
    /\ procs[1].t = 199800

\* C18: validity classification: a task whose processing ends without an
\* exception is discarded (with no header repair, no tagging and no ledger
\* line) if and only if neither (a) the exit is valid: exit code 0, or the
\* graceful-stop byte was sent and the exit code is 0 or 255, nor (b) the
\* stop reason is in the early-stop set and the output file exists and is
\* larger than 1024 bytes.
C18_Classification ==
    [][(wpc = "finalize" /\ wpc' = "idle" /\ raised' = raised) =>
           LET s == task.process_obj
               f == files[task.track_id]
               a == exit_c = 0 \/ (task.q_sent_by_main /\ exit_c \in {0, 255})
               b == task.stop_reason \in EarlyStopReasons /\ f.exists /\ f.size > 1024
           IN /\ (s \in discarded') <=> (~a /\ ~b)
              /\ s \in discarded' =>
                     /\ s \notin repaired' /\ s \notin tagged' /\ s \notin finalized'
                     /\ ledger' = ledger]_vars

\* The part of C18 that holds: the same equivalence with the worker's own
\* graceful_stop_by_q flag in (a), which a reap that timed out leaves False.
C18_ClassificationByFlag ==
    [][(wpc = "finalize" /\ wpc' = "idle" /\ raised' = raised) =>
           LET s == task.process_obj
               f == files[task.track_id]
               a == exit_c = 0 \/ graceful_stop_by_q
               b == task.stop_reason \in EarlyStopReasons /\ f.exists /\ f.size > 1024
           IN /\ (s \in discarded') <=> (~a /\ ~b)
              /\ s \in discarded' =>
                     /\ s \notin repaired' /\ s \notin tagged' /\ s \notin finalized'
                     /\ ledger' = ledger]_vars

\* The reasons passed to submit_to_finalization_queue by the record loop's
\* exit path (line 643) and by main's shutdown path (line 752).
ShutdownStopReasons == {"Record loop ended or error", "Shutdown signal to main thread"}

\* The tasks in the queue and the one the worker holds.
TasksInFlight ==
    {finalization_task_queue[i] : i \in DOMAIN finalization_task_queue}
        \cup (IF wpc \in {"reap", "finalize"} THEN {task} ELSE {})

\* C19: the early-stop set covers shutdown: every task stopped by the record
\* loop's exit path or by main's shutdown path carries a reason of the
\* early-stop set, and when such a task's output file is initially usable
\* the task is not discarded, whatever the exit code, and gets its ledger
\* line if the file is still usable after the header repair.
C19_ShutdownCovered ==
    /\ [](\A t \in TasksInFlight :
              t.stop_reason \in ShutdownStopReasons => t.stop_reason \in EarlyStopReasons)
    /\ [][(/\ wpc = "finalize" /\ wpc' = "idle" /\ raised' = raised
           /\ task.stop_reason \in ShutdownStopReasons
           /\ files[task.track_id].exists
           /\ files[task.track_id].size > MinFileSize)
              => /\ task.process_obj \notin discarded'
                 /\ (files'[task.track_id].exists
                        /\ files'[task.track_id].size > MinFileSize)
                        => /\ task.process_obj \in finalized'
                           /\ Len(ledger') = Len(ledger) + 1]_vars

\* The behavioural half of C19 on its own: a task stopped at shutdown with
\* an initially usable file is not discarded.
C19_ShutdownTaskKept ==
    [][(/\ wpc = "finalize" /\ wpc' = "idle" /\ raised' = raised
        /\ task.stop_reason \in ShutdownStopReasons
        /\ files[task.track_id].exists
        /\ files[task.track_id].size > MinFileSize)
           => task.process_obj \notin discarded']_vars

\* C20: exit codes 0 and 255 both count as a successful exit in the worker's
\* classification, whether or not the graceful-stop byte was sent: a task
\* reaped with either code is never discarded.
C20_ExitCodesSuccess ==
    [][(wpc = "finalize" /\ wpc' = "idle" /\ raised' = raised /\ exit_c \in {0, 255})
           => task.process_obj \notin discarded']_vars

\* The part of C20 that holds: exit code 0 is never discarded, and neither
\* is 255 when the worker saw the graceful stop succeed.
C20_ZeroOrGraceful ==
    [][(/\ wpc = "finalize" /\ wpc' = "idle" /\ raised' = raised
        /\ (exit_c = 0 \/ (exit_c = 255 /\ graceful_stop_by_q)))
           => task.process_obj \notin discarded']_vars

\* C21: while a session is active, a poll tick calls Stop if and only if the
\* encoder has exited, or the fetched snapshot is null or not playing, or its
\* id differs from the session's track id.  For every snapshot a poll can
\* fetch the stop reason is set exactly under that condition; a tick under
\* it hands the session to the queue and empties the slot, and a tick not
\* under it leaves the slot, the queue and the attempted set as they are.
C21_StopIffReason ==
    /\ [](current_ffmpeg_process # 0 =>
              \A info \in Snapshots(playlist) :
                  (StopReasonOf(procs[current_ffmpeg_process], info,
                                current_recording_info) # "")
                      <=> \/ ~procs[current_ffmpeg_process].running
                          \/ ~info.present
                          \/ ~info.is_playing
                          \/ info.id # current_recording_info.track_id)
    /\ [][(pc = "poll" /\ current_ffmpeg_process # 0) =>
              \A info \in Snapshots(playlist), launch \in LaunchOutcomes, qok \in BOOLEAN :
                  PollTick(info, launch, qok) =>
                      IF \/ ~procs[current_ffmpeg_process].running
                         \/ ~info.present
                         \/ ~info.is_playing
                         \/ info.id # current_recording_info.track_id
                      THEN /\ enqueued'[current_ffmpeg_process]
                                  = enqueued[current_ffmpeg_process] + 1
                           /\ Len(finalization_task_queue')
                                  = Len(finalization_task_queue) + 1
                           /\ current_ffmpeg_process' = 0
                      ELSE /\ UNCHANGED slotVars
                           /\ finalization_task_queue' = finalization_task_queue
                           /\ session_attempted_ids' = session_attempted_ids]_vars

\* A session was stopped by a tick because playback had stopped, and another
\* because its encoder had exited.
C21_Witness ==
    /\ Len(finalization_task_queue) = 2
    /\ finalization_task_queue[1].stop_reason = "Playback stopped or track unavailable"
    /\ finalization_task_queue[2].stop_reason = "FFmpeg process ended"
    /\ current_ffmpeg_process = 0

\* C22: with organize enabled, a tick that fetches an eligible playing
\* snapshot while no session is active starts a session for it and the poll
\* loop keeps running.
C22_OrganizeStarts ==
    [][(pc = "poll" /\ organize /\ current_ffmpeg_process = 0) =>
           \A info \in Snapshots(playlist), qok \in BOOLEAN :
               ( /\ Detected(info)
                 /\ ~AlreadyHandled(info.id, persisted_recorded_ids, session_attempted_ids)
                 /\ ~TooShort(info.id)
                 /\ ~(skip_existing_file /\ files[info.id].exists)
                 /\ PollTick(info, "ok", qok) )
               => /\ pc' = "poll"
                  /\ Len(procs') = Len(procs) + 1
                  /\ current_recording_info'.track_id = info.id]_vars

\* With organize enabled no session is ever started.
C22_OrganizeNeverRecords ==
    organize => Len(procs) = 0

\* C23: load_recorded_ids never aborts on a bad line: whatever the ledger
\* file holds, the load completes, the poll loop is entered, and the set
\* loaded is exactly the track ids of the well-formed lines.
C23_LoadTolerant ==
    [][(pc = "setup" /\ pc' # "setup" /\ ~stop_worker_event')
           => (pc' = "poll" /\ persisted_recorded_ids' = PriorIds)]_vars

\* The lines the function does skip: when no line of the file is a JSON
\* value other than an object, the load completes with the ids of the
\* well-formed lines.
C23_SkipsGarbageAndNoId ==
    [][(pc = "setup" /\ pc' # "setup" /\ ~stop_worker_event'
            /\ \A i \in DOMAIN ledger : ledger[i].kind # "scalar")
           => (pc' = "poll" /\ persisted_recorded_ids' = PriorIds)]_vars

\* C24: a header repair that returns False leaves the original audio file
\* in place with its original content: for every task whose repair pass is
\* run and fails, the file at the output path is after the worker's
\* processing what it was before.
C24_FailedRepairKeepsOriginal ==
    [][wpc = "finalize" =>
           \A rw \in RewriteOutcomes, exc \in Raises :
               LET f == files[task.track_id]
               IN ( /\ FileOk(f)
                    /\ ~Rejected(exit_c, graceful_stop_by_q, task.stop_reason, f)
                    /\ ~rewrite_audio_file(f, rw).ok
                    /\ WorkerFinalize(rw, exc) )
                  => files'[task.track_id] = f]_vars

\* The failures that happen before the original is unlinked (non-zero exit,
\* missing or undersized result, timeout) do leave it in place.
C24_KeptUnlessReplaceFails ==
    [][wpc = "finalize" =>
           \A rw \in RewriteOutcomes \ {"replace_error"}, exc \in Raises :
               LET f == files[task.track_id]
               IN ( /\ FileOk(f)
                    /\ ~Rejected(exit_c, graceful_stop_by_q, task.stop_reason, f)
                    /\ ~rewrite_audio_file(f, rw).ok
                    /\ WorkerFinalize(rw, exc) )
                  => files'[task.track_id] = f]_vars

\* C25: a failed header repair does not stop finalization: when a task
\* passed classification, its repair pass returned False, the file is still
\* at the output path with more than 1024 bytes and nothing raises, then the
\* task is tagged and exactly one ledger line is appended for it, whose
\* header_rewrite_successful field is false.
C25_FailedRepairStillLogged ==
    [][wpc = "finalize" =>
           \A rw \in RewriteOutcomes, exc \in Raises :
               LET f == files[task.track_id]
                   s == task.process_obj
               IN ( /\ FileOk(f)
                    /\ ~Rejected(exit_c, graceful_stop_by_q, task.stop_reason, f)
                    /\ ~rewrite_audio_file(f, rw).ok
                    /\ raised' = raised
                    /\ WorkerFinalize(rw, exc)
                    /\ files'[task.track_id].exists
                    /\ files'[task.track_id].size > 1024 )
                  => /\ s \in tagged'
                     /\ s \in finalized'
                     /\ Len(ledger') = Len(ledger) + 1
                     /\ ledger'[Len(ledger')].kind = "entry"
                     /\ ledger'[Len(ledger')].sid = s
                     /\ ledger'[Len(ledger')].track_id = task.track_id
                     /\ ~ledger'[Len(ledger')].header_rewrite_successful
                     /\ \A i \in 1..Len(ledger) : ledger'[i] = ledger[i]]_vars

\* A task whose repair pass failed was tagged and logged with the flag false.
C25_Witness ==
    \E s \in Started :
        /\ s \in repaired
        /\ s \in tagged
        /\ \E i \in LinesOf(s) : ~ledger[i].header_rewrite_successful

\* C26: failed-start marking: when start_recording returns False for a
\* snapshot whose nominal duration is at least min_duration, the attempted
\* set is unchanged and the track is still eligible, with the slot empty and
\* the loop running, so the next tick that sees it calls start_recording
\* again; a failed start adds the id to the attempted set only when the
\* nominal duration is below min_duration, and then it always does.
C26_FailedStartMarking ==
    /\ [][(pc = "poll" /\ current_ffmpeg_process = 0 /\ ~organize) =>
              \A info \in Snapshots(playlist), launch \in LaunchOutcomes, qok \in BOOLEAN :
                  ( /\ info.present /\ info.is_playing /\ info.id # ""
                    /\ info.id \notin persisted_recorded_ids \cup session_attempted_ids
                    /\ ~(skip_existing_file /\ files[info.id].exists)
                    /\ PollTick(info, launch, qok)
                    /\ Len(procs') = Len(procs) )
                  => IF DurationMs(info.id) >= min_duration * 1000
                     THEN /\ session_attempted_ids' = session_attempted_ids
                          /\ persisted_recorded_ids' = persisted_recorded_ids
                          /\ files' = files
                          /\ current_ffmpeg_process' = 0
                          /\ pc' = "poll"
                     ELSE session_attempted_ids'
                              = session_attempted_ids \cup {info.id}]_vars
    /\ [](\A id \in session_attempted_ids :
              \/ DurationMs(id) < min_duration * 1000
              \/ \E s \in Started : procs[s].track_id = id
              \/ skip_existing_file)

\* start_recording got as far as creating the directory and returned False
\* (wrong format, missing binary or spawn failure): no session exists, the
\* attempted set is empty and the poller is looking again.
C26_Witness ==
    /\ target_dir_made
    /\ Len(procs) = 0
    /\ session_attempted_ids = {}
    /\ current_ffmpeg_process = 0
    /\ pc = "poll"
    /\ ~stop_worker_event

\* C27: a failed start leaves no partial session state: whenever
\* start_recording returns False (too short, directory creation failure,
\* unsupported format, missing encoder binary, launch failure) the session
\* slot is still empty, no encoder process has been added, and the task
\* queue is unchanged; at no time is an encoder running that is neither in
\* the slot nor handed to the queue.
C27_FailedStartLeavesNothing ==
    /\ [][(pc = "poll" /\ current_ffmpeg_process = 0 /\ ~organize) =>
              \A info \in Snapshots(playlist), launch \in LaunchOutcomes, qok \in BOOLEAN :
                  ( /\ info.present /\ info.is_playing /\ info.id # ""
                    /\ info.id \notin persisted_recorded_ids \cup session_attempted_ids
                    /\ ~(skip_existing_file /\ files[info.id].exists)
                    /\ \/ DurationMs(info.id) < min_duration * 1000
                       \/ launch # "ok"
                       \/ format \notin {"ogg", "flac"}
                    /\ PollTick(info, launch, qok) )
                  => /\ current_ffmpeg_process' = 0
                     /\ current_recording_info' = NoInfo
                     /\ procs' = procs
                     /\ finalization_task_queue' = finalization_task_queue
                     /\ unfinished_tasks' = unfinished_tasks
                     /\ enqueued' = enqueued]_vars
    /\ [](/\ current_ffmpeg_process = 0 <=> current_recording_info = NoInfo
          /\ \A s \in Started :
                 (procs[s].running /\ enqueued[s] = 0) => current_ffmpeg_process = s)

\* start_recording has returned False for the short track and, at or after
\* the directory creation, for another one; nothing was started or queued.
C27_Witness ==
    /\ too_short_calls["T2"] = 1
    /\ target_dir_made
    /\ Len(procs) = 0
    /\ current_ffmpeg_process = 0
    /\ finalization_task_queue = <<>>
    /\ pc = "poll"

C29_ReapOrdering ==
    /\ [](/\ wpc = "finalize" => ~procs[task.process_obj].running
          /\ \A s \in raised : LinesOf(s) = {} /\ s \notin finalized)
    /\ [][\A s \in Started :
              (procs[s].running /\ ~procs'[s].running /\ procs'[s].returncode = KilledCode)
                  => /\ wpc = "reap"
                     /\ task.process_obj = s
                     /\ dequeued[s] = 1
                     /\ exit_c' = KilledCode
                     /\ ~graceful_stop_by_q'
                     /\ wpc' = "finalize"]_vars
    /\ [][(wpc = "reap" /\ wpc' \notin {"reap", "finalize"}) =>
              /\ procs[task.process_obj].running
              /\ procs' = procs
              /\ task.process_obj \in raised'
              /\ done'[task.process_obj] = done[task.process_obj] + 1
              /\ unfinished_tasks' = unfinished_tasks - 1
              /\ ledger' = ledger
              /\ files' = files
              /\ UNCHANGED outcomeVars
              /\ wpc' = "idle"]_vars

\* One task was abandoned after the kill did not end its encoder, which is
\* still running; another was killed and then classified.
C29_Witness ==
    /\ \E s \in raised : procs[s].running /\ done[s] = 1
    /\ wpc = "finalize"
    /\ exit_c = KilledCode

\* C30: ledger entries only for usable recordings: a line is added to the
\* ledger only by the worker, one at a time, for the task it holds, when
\* that task passed the validity classification and its output file exists
\* with more than 1024 bytes after the header-repair step; a task rejected
\* at classification, or whose file is missing or undersized after repair,
\* adds no line, in that step or ever.
C30_LedgerOnlyUsable ==
    /\ [][ledger' # ledger =>
              /\ wpc = "finalize"
              /\ ledger' = Append(ledger, ledger'[Len(ledger')])
              /\ ledger'[Len(ledger')].kind = "entry"
              /\ ledger'[Len(ledger')].sid = task.process_obj
              /\ ledger'[Len(ledger')].track_id = task.track_id
              /\ ~Rejected(exit_c, graceful_stop_by_q, task.stop_reason,
                           files[task.track_id])
              /\ files'[task.track_id].exists
              /\ files'[task.track_id].size > 1024]_vars
    /\ [][(/\ wpc = "finalize"
           /\ wpc' # "finalize"
           /\ \/ Rejected(exit_c, graceful_stop_by_q, task.stop_reason,
                          files[task.track_id])
              \/ ~files'[task.track_id].exists
              \/ files'[task.track_id].size <= 1024)
              => ledger' = ledger]_vars
    /\ [](\A s \in Started :
              /\ s \in discarded => LinesOf(s) = {}
              /\ (s \in repaired /\ s \notin tagged) => LinesOf(s) = {}
              /\ LinesOf(s) # {} => s \in finalized /\ s \in tagged)

\* One task passed classification but its file was unusable after the
\* repair step and it has no line; another was finalized and has its line.
C30_Witness ==
    \E s1, s2 \in Started :
        /\ s1 \in repaired /\ s1 \notin tagged
        /\ done[s1] = 1
        /\ LinesOf(s1) = {}
        /\ s2 \in finalized
        /\ LinesOf(s2) # {}

\* Main is past line 752: the shutdown flag is set and the main thread
\* enqueues nothing any more.
FlagSetNoMoreEnqueue ==
    stop_worker_event /\ pc \in {"check_alive", "queue_join", "worker_join", "exited"}

\* C31: shutdown terminates: once the shutdown flag is set and no further
\* task is enqueued, under fair scheduling the worker eventually leaves its
\* loop (or the process has exited), the main shutdown sequence (queue join,
\* then worker join) eventually completes, and the worker does not stay
\* waiting on an empty queue while the flag is set.
C31_ShutdownTerminates ==
    /\ FlagSetNoMoreEnqueue ~> (pc = "exited")
    /\ FlagSetNoMoreEnqueue ~> (WorkerLeft \/ pc = "exited")
    /\ (stop_worker_event /\ wpc = "idle" /\ finalization_task_queue = <<>>)
           ~> (wpc # "idle" \/ pc = "exited")

\* Shutdown does terminate when no task was put on the queue after the
\* worker had left its loop.
C31_TerminatesUnlessLateEnqueue ==
    /\ (FlagSetNoMoreEnqueue /\ ~(WorkerLeft /\ finalization_task_queue # <<>>))
           ~> (pc = "exited")
    /\ FlagSetNoMoreEnqueue ~> (WorkerLeft \/ pc = "exited")
    /\ (stop_worker_event /\ wpc = "idle" /\ finalization_task_queue = <<>>)
           ~> (wpc # "idle" \/ pc = "exited")

\* The reason the fixed order gives for an encoder state and a snapshot:
\* encoder exited, then snapshot null or not playing, then id differs.
ReasonByPriority(exited, info, track_id) ==
    CASE exited -> "FFmpeg process ended"
      [] ~exited /\ (~info.present \/ ~info.is_playing)
             -> "Playback stopped or track unavailable"
      [] ~exited /\ info.present /\ info.is_playing /\ info.id # track_id
             -> "Track changed"
      [] OTHER -> ""

\* C32: stop-reason priority: when several stop conditions hold on the same
\* tick the reason passed to Stop is chosen in the order encoder exited,
\* snapshot null or not playing, id differs; if the encoder has exited when
\* a track change is observed the reason is "FFmpeg process ended", which
\* is not in the worker's early-stop set.
C32_StopReasonPriority ==
    /\ []( /\ "FFmpeg process ended" \notin EarlyStopReasons
           /\ current_ffmpeg_process # 0 =>
                 \A info \in Snapshots(playlist) :
                     StopReasonOf(procs[current_ffmpeg_process], info,
                                  current_recording_info)
                         = ReasonByPriority(~procs[current_ffmpeg_process].running,
                                            info, current_recording_info.track_id) )
    /\ [][(pc = "poll" /\ current_ffmpeg_process # 0) =>
              \A info \in Snapshots(playlist), launch \in LaunchOutcomes, qok \in BOOLEAN :
                  ( /\ Len(finalization_task_queue') = Len(finalization_task_queue) + 1
                    /\ PollTick(info, launch, qok) )
                  => finalization_task_queue'[Len(finalization_task_queue')].stop_reason
                         = ReasonByPriority(~procs[current_ffmpeg_process].running,
                                            info, current_recording_info.track_id)]_vars

\* A session whose encoder had exited was stopped with that reason while
\* another track was available to be seen playing, and the worker, holding
\* its task with a usable file, finds the reason outside the early-stop set.
C32_Witness ==
    /\ wpc = "finalize"
    /\ task.stop_reason = "FFmpeg process ended"
    /\ task.stop_reason \notin EarlyStopReasons
    /\ FileOk(files[task.track_id])
    /\ Cardinality(playlist) >= 2
    /\ pc = "poll"

\* C33: a single poll tick performs at most one of Stop and Start: a step
\* that starts a session is a tick that found the slot empty and leaves the
\* queue as it was; a step that enqueues a session starts none and leaves
\* the slot empty, so after a track change the capture of the new track
\* begins at a later tick.
C33_StopOrStart ==
    /\ [][Len(procs') > Len(procs) =>
              /\ pc = "poll"
              /\ current_ffmpeg_process = 0
              /\ current_ffmpeg_process' = Len(procs')
              /\ finalization_task_queue' = finalization_task_queue
              /\ enqueued' = enqueued]_vars
    /\ [][\A s \in Started :
              enqueued'[s] # enqueued[s] =>
                  /\ procs' = procs
                  /\ current_ffmpeg_process' = 0
                  /\ current_recording_info' = NoInfo
                  /\ session_attempted_ids' = session_attempted_ids]_vars
    /\ [][(pc = "poll" /\ current_ffmpeg_process # 0) =>
              \A info \in Snapshots(playlist), launch \in LaunchOutcomes, qok \in BOOLEAN :
                  ( /\ info.present /\ info.is_playing /\ info.id # ""
                    /\ info.id # current_recording_info.track_id
                    /\ PollTick(info, launch, qok) )
                  => /\ procs' = procs
                     /\ current_ffmpeg_process' = 0
                     /\ current_recording_info' = NoInfo]_vars

\* The first session was stopped on a track change and its task is still
\* queued; a later tick has started the capture of the other track.
C33_Witness ==
    /\ Len(procs) = 2
    /\ current_ffmpeg_process = 2
    /\ finalization_task_queue # <<>>
    /\ finalization_task_queue[1].process_obj = 1
    /\ finalization_task_queue[1].stop_reason = "Track changed"
    /\ procs[2].track_id # procs[1].track_id

\* C34: thread confinement of session state: every step of the finalization
\* worker leaves the session slot (current_ffmpeg_process,
\* current_recording_info) and the attempted set unchanged, and the process
\* of a task that is queued or held by the worker is never the one in the
\* slot, so the worker's reaping and killing act on no session the poller
\* still owns.
C34_WorkerLeavesSlotAlone ==
    /\ [][Worker => /\ current_ffmpeg_process' = current_ffmpeg_process
                    /\ current_recording_info' = current_recording_info
                    /\ session_attempted_ids' = session_attempted_ids
                    /\ persisted_recorded_ids' = persisted_recorded_ids
                    /\ pc' = pc]_vars
    /\ [](/\ WorkerBusy =>
                 (current_ffmpeg_process = 0 \/ task.process_obj # current_ffmpeg_process)
          /\ \A i \in DOMAIN finalization_task_queue :
                 current_ffmpeg_process = 0
                     \/ finalization_task_queue[i].process_obj # current_ffmpeg_process)

\* The worker is processing the task of the first session while the poller
\* has the second session in the slot and its track in the attempted set.
C34_Witness ==
    /\ wpc = "finalize"
    /\ task.process_obj = 1
    /\ current_ffmpeg_process = 2
    /\ current_recording_info.track_id \in session_attempted_ids
    /\ procs[2].running

====
